---------------------------- MODULE Spec2Model ----------------------------
(***************************************************************************)
(* A model of src/kmeans.py: Lloyd's k-means over two-dimensional points   *)
(* whose coordinates are rounded to one decimal place.                     *)
(*                                                                         *)
(* Representation.  A coordinate is an integer number of tenths, so that   *)
(* Point(0.1, 0.2) is <<1, 2>>.  A Python dict is a sequence of            *)
(* <<key, value>> pairs in insertion order.  Python's float arithmetic is  *)
(* modelled where it decides an outcome: see FloatAdd and RoundedMean.     *)
(***************************************************************************)
EXTENDS Integers, Sequences, FiniteSets, TLC

VARIABLES
    pc,                  \* position in kmeans(): "start", "choose", "assign",
                         \* "group", "recompute", "test", "done"
    in_points,           \* parameter in_points
    in_k,                \* parameter in_k
    x_range, y_range,    \* (x_min, x_max) and (y_min, y_max) of _choose_barycenters
    selected,            \* _choose_barycenters: the (x, y) pairs already drawn
    _result,             \* _choose_barycenters: the list being built
    barycenters,         \* the current list of centroids
    _point_barycenter,   \* dict point -> centroid of the current iteration
    _barycenter_points,  \* dict centroid -> member list of the current iteration
    changed,             \* the flag returned by _find_barycenters
    emptied,             \* history: some centroid was the nearest of no point
    other                \* a second execution of the main loop on the same input

vars == <<pc, in_points, in_k, x_range, y_range, selected, _result, barycenters,
          _point_barycenter, _barycenter_points, changed, emptied, other>>

---------------------------------------------------------------------------
(* Bounds of the model. *)

MaxCoord == 1
MaxPoints == 3
MaxK == 2
LoopCoord == 2
LoopMissing == 1
LoopK == 3
MaxSeed == 10

Coords == 0 .. MaxCoord
Grid == Coords \X Coords
SignedCoords == (0 - MaxCoord) .. MaxCoord
SignedGrid == SignedCoords \X SignedCoords

SeqsUpTo(S, n) == UNION {[1 .. m -> S] : m \in 0 .. n}

Range(s) == {s[i] : i \in 1 .. Len(s)}

IsInjective(s) == \A i, j \in 1 .. Len(s) : s[i] = s[j] => i = j

---------------------------------------------------------------------------
(* Point *)

\* Point.distance, as the square of the distance in units of 0.01: the code
\* only compares distances, sqrt is monotone, and on the coordinates the
\* model ranges over the doubles compare as the exact values do.
distance(self, in_other) ==
    (self[1] - in_other[1]) * (self[1] - in_other[1])
  + (self[2] - in_other[2]) * (self[2] - in_other[2])

\* Point.x_min_max: the loop of lines 27-31 from index i on.
RECURSIVE x_min_max_from(_, _, _, _)
x_min_max_from(points, i, x_min, x_max) ==
    IF i > Len(points) THEN <<x_min, x_max>>
    ELSE LET x == points[i][1] IN
         x_min_max_from(points, i + 1,
                        IF x_min > x THEN x ELSE x_min,
                        IF x_max < x THEN x ELSE x_max)

x_min_max(points) == x_min_max_from(points, 1, 0, 0)

\* Point.y_min_max: the loop of lines 38-42 from index i on.
RECURSIVE y_min_max_from(_, _, _, _)
y_min_max_from(points, i, y_min, y_max) ==
    IF i > Len(points) THEN <<y_min, y_max>>
    ELSE LET y == points[i][2] IN
         y_min_max_from(points, i + 1,
                        IF y_min > y THEN y ELSE y_min,
                        IF y_max < y THEN y ELSE y_max)

y_min_max(points) == y_min_max_from(points, 1, 0, 0)

---------------------------------------------------------------------------
(* dict *)

DictKeys(d) == [i \in 1 .. Len(d) |-> d[i][1]]

DictValues(d) == [i \in 1 .. Len(d) |-> d[i][2]]

DictHas(d, k) == LET IsKey(e) == e[1] = k IN SelectSeq(d, IsKey) # <<>>

DictGet(d, k) == d[CHOOSE i \in 1 .. Len(d) : d[i][1] = k][2]

\* d[k] = v: a present key keeps its place and takes the new value.
DictSet(d, k, v) ==
    IF DictHas(d, k)
    THEN [i \in 1 .. Len(d) |-> IF d[i][1] = k THEN <<k, v>> ELSE d[i]]
    ELSE Append(d, <<k, v>>)

\* A dict as the set of its items.
DictItems(d) == Range(d)

---------------------------------------------------------------------------
(* float *)

\* A double that holds a sum of coordinates is tracked as <<s, e>>: s is the
\* exact sum in tenths and the double lies e units in the last place above
\* the double nearest to s/10.  Adding the coordinate t/10 to <<s, e>> gives
\* <<s + t, e>> except where the IEEE-754 addition rounds the other way:
\* UlpUp and UlpDown list those additions, as <<s, e, t>>, for coordinates
\* 0.0, 0.1 and 0.2 and up to nine terms (0.1 + 0.2 is 0.30000000000000004).
\* Sums of whole numbers are exact and shift nothing.
UlpUp ==
    { <<1, 0, 2>>, <<2, 0, 1>>, <<4, 0, 2>>, <<8, -1, 2>>, <<10, -1, 2>>,
      <<11, -1, 1>>, <<11, 0, 1>>, <<11, 1, 1>>, <<13, -1, 1>>, <<13, 0, 1>>,
      <<13, 1, 1>>, <<16, -1, 1>> }

UlpDown ==
    { <<3, 1, 1>>, <<3, 1, 2>>, <<6, 1, 2>>, <<7, 0, 1>>, <<7, 0, 2>>,
      <<7, 1, 1>>, <<9, 1, 2>>, <<14, 0, 2>>, <<14, 1, 2>> }

FloatAdd[acc \in Int \X Int, t \in Int] ==
    LET key == <<acc[1], acc[2], t>> IN
    <<acc[1] + t,
      IF key \in UlpUp THEN acc[2] + 1
      ELSE IF key \in UlpDown THEN acc[2] - 1
      ELSE acc[2]>>

\* sum([...]) of line 120: left to right, starting from 0.
RECURSIVE FloatSumFrom(_, _, _)
FloatSumFrom(cs, i, acc) ==
    IF i > Len(cs) THEN acc ELSE FloatSumFrom(cs, i + 1, FloatAdd[acc, cs[i]])

FloatSum[cs \in Seq(Int)] == FloatSumFrom(cs, 1, <<0, 0>>)

\* The means that lie halfway between two tenths in exact arithmetic, as
\* <<s, e, n>> (the sum <<s, e>> divided by n): round(sum / n, 1) rounds the
\* double it is given, which lies above the half for TiesAbove (0.1/2 is
\* 0.05000000000000000277) and below it for TiesBelow (0.6/4 is
\* 0.1499999999999999944).
TiesAbove ==
    { <<1, 0, 2>>, <<2, 0, 4>>, <<3, 1, 2>>, <<3, 1, 6>>, <<4, 0, 8>>,
      <<6, 1, 4>>, <<9, 1, 6>>, <<12, 1, 8>>, <<12, 2, 8>> }

TiesBelow ==
    { <<6, 0, 4>>, <<9, -1, 6>>, <<9, 0, 6>>, <<12, 0, 8>> }

\* round(sum / n, 1) of lines 13-14 and 120, in tenths.  Off a tie the nearest
\* tenth; on a tie the side the double lies on; a tie the double holds
\* exactly (x.25, x.75) goes to the even tenth.
RoundedMean[acc \in Int \X Int, n \in Nat] ==
    LET s == acc[1]
        fl == s \div n
        tie == (2 * s) % n = 0 /\ ((2 * s) \div n) % 2 = 1
    IN  IF ~tie THEN (2 * s + n) \div (2 * n)
        ELSE IF <<s, acc[2], n>> \in TiesAbove THEN fl + 1
        ELSE IF <<s, acc[2], n>> \in TiesBelow THEN fl
        ELSE IF fl % 2 = 0 THEN fl ELSE fl + 1

---------------------------------------------------------------------------
(* kmeans: the nested functions *)

\* first_min keeping the last smallest distance instead of the first.
RECURSIVE last_min(_, _, _, _)
last_min(_point, _in_barycenters, i, best) ==
    IF i > Len(_in_barycenters) THEN best
    ELSE last_min(_point, _in_barycenters, i + 1,
                  IF distance(_point, _in_barycenters[i])
                       <= distance(_point, _in_barycenters[best])
                  THEN i ELSE best)

\* min(dist, key=dist.get) of line 111 over the dict that lines 107-108 fill
\* in the order of the centroid list: scan from index i, keeping the index of
\* the first smallest distance.
RECURSIVE first_min(_, _, _, _)
first_min(_point, _in_barycenters, i, best) ==
    IF i > Len(_in_barycenters) THEN best
    ELSE first_min(_point, _in_barycenters, i + 1,
                   IF distance(_point, _in_barycenters[i])
                        < distance(_point, _in_barycenters[best])
                   THEN i ELSE best)

closest(_point, _in_barycenters) ==
    _in_barycenters[first_min(_point, _in_barycenters, 2, 1)]

\* _assign_barycenters: the loops of lines 105-111 from point i on.  A point
\* that occurred before is a key already and gets the centroid it has: the
\* dict stays as it is.
RECURSIVE assign_from(_, _, _, _)
assign_from(_in_points, _in_barycenters, i, result) ==
    IF i > Len(_in_points) THEN result
    ELSE assign_from(_in_points, _in_barycenters, i + 1,
                     IF \E j \in 1 .. i - 1 : _in_points[j] = _in_points[i]
                     THEN result
                     ELSE Append(result, <<_in_points[i],
                                          closest(_in_points[i], _in_barycenters)>>))

_assign_barycenters(_in_points, _in_barycenters) ==
    assign_from(_in_points, _in_barycenters, 1, <<>>)

\* set(_point_barycenter.values()) of line 148 is enumerated in an order the
\* hashes of the points decide (str hashes differ from process to process):
\* every order of the distinct values.
Orders(S) == {o \in [1 .. Cardinality(S) -> S] : IsInjective(o)}

\* The dict comprehension of lines 146-148, for one enumeration order.
members(pb, n) ==
    LET Assigned(e) == e[2] = n IN DictKeys(SelectSeq(pb, Assigned))

group_by(pb, order) == [i \in 1 .. Len(order) |-> <<order[i], members(pb, order[i])>>]

\* _find_barycenter
_find_barycenter(_in_points) ==
    <<RoundedMean[FloatSum[[i \in 1 .. Len(_in_points) |-> _in_points[i][1]]],
                  Len(_in_points)],
      RoundedMean[FloatSum[[i \in 1 .. Len(_in_points) |-> _in_points[i][2]]],
                  Len(_in_points)]>>

\* _find_barycenters: the loop of lines 134-138 from entry i on.
RECURSIVE find_from(_, _, _, _)
find_from(bp, i, _changed, result) ==
    IF i > Len(bp) THEN <<_changed, result>>
    ELSE LET b == bp[i][1]
             pts == bp[i][2]
             new_b == _find_barycenter(pts)
         IN  find_from(bp, i + 1, _changed \/ b # new_b, DictSet(result, new_b, pts))

\* _find_barycenters with "_changed = (b != new_b)": the flag of the last
\* entry alone.
RECURSIVE find_last_flag_from(_, _, _, _)
find_last_flag_from(bp, i, _changed, result) ==
    IF i > Len(bp) THEN <<_changed, result>>
    ELSE LET b == bp[i][1]
             pts == bp[i][2]
             new_b == _find_barycenter(pts)
         IN  find_last_flag_from(bp, i + 1, b # new_b, DictSet(result, new_b, pts))

find_barycenters_last_flag(_in_barycenter_points) ==
    find_last_flag_from(_in_barycenter_points, 1, FALSE, <<>>)

_find_barycenters(_in_barycenter_points) ==
    find_from(_in_barycenter_points, 1, FALSE, <<>>)

---------------------------------------------------------------------------
(* kmeans: the steps of the body *)

\* Lines 79-82: the entry of _choose_barycenters.
ChooseBegin ==
    /\ pc = "start"
    /\ _result' = <<>>
    /\ selected' = {}
    /\ x_range' = x_min_max(in_points)
    /\ y_range' = y_min_max(in_points)
    /\ pc' = "choose"
    /\ UNCHANGED <<in_points, in_k, barycenters, _point_barycenter,
                   _barycenter_points, changed, emptied>>

\* DrawAt without the test of line 86: a pair drawn before is taken again.
DrawAtNoReject(x, y) ==
    /\ pc = "choose"
    /\ x \in x_range[1] .. x_range[2]
    /\ y \in y_range[1] .. y_range[2]
    /\ selected' = selected \cup {<<x, y>>}
    /\ _result' = Append(_result, <<x, y>>)
    /\ IF Len(_result') = in_k
       THEN pc' = "assign" /\ barycenters' = _result'
       ELSE UNCHANGED <<pc, barycenters>>
    /\ UNCHANGED <<in_points, in_k, x_range, y_range, _point_barycenter,
                   _barycenter_points, changed, emptied>>

\* Lines 84-93: one turn of the rejection loop, for the draw (x, y).  A pair
\* drawn before is discarded (continue); the K-th new pair ends the call and
\* line 141 stores the list.
DrawAt(x, y) ==
    /\ pc = "choose"
    /\ x \in x_range[1] .. x_range[2]
    /\ y \in y_range[1] .. y_range[2]
    /\ IF <<x, y>> \in selected
       THEN UNCHANGED <<pc, selected, _result, barycenters>>
       ELSE /\ selected' = selected \cup {<<x, y>>}
            /\ _result' = Append(_result, <<x, y>>)
            /\ IF Len(_result') = in_k
               THEN pc' = "assign" /\ barycenters' = _result'
               ELSE UNCHANGED <<pc, barycenters>>
    /\ UNCHANGED <<in_points, in_k, x_range, y_range, _point_barycenter,
                   _barycenter_points, changed, emptied>>

\* round(uniform(x_min, x_max), 1): every tenth from x_min to x_max.
Draw ==
    \E x \in x_range[1] .. x_range[2], y \in y_range[1] .. y_range[2] : DrawAt(x, y)

\* Line 144.
Assign ==
    /\ pc = "assign"
    /\ _point_barycenter' = _assign_barycenters(in_points, barycenters)
    /\ pc' = "group"
    /\ UNCHANGED <<in_points, in_k, x_range, y_range, selected, _result,
                   barycenters, _barycenter_points, changed, emptied>>

\* Lines 146-148.
Group ==
    /\ pc = "group"
    /\ \E order \in Orders(Range(DictValues(_point_barycenter))) :
          _barycenter_points' = group_by(_point_barycenter, order)
    /\ emptied' = (emptied \/ Len(_barycenter_points') < Len(barycenters))
    /\ pc' = "recompute"
    /\ UNCHANGED <<in_points, in_k, x_range, y_range, selected, _result,
                   barycenters, _point_barycenter, changed>>

\* Line 155.
Recompute ==
    /\ pc = "recompute"
    /\ LET r == _find_barycenters(_barycenter_points) IN
          /\ changed' = r[1]
          /\ _barycenter_points' = r[2]
    /\ pc' = "test"
    /\ UNCHANGED <<in_points, in_k, x_range, y_range, selected, _result,
                   barycenters, _point_barycenter, emptied>>

\* Test leaving the loop whatever the flag says: a single iteration.
TestOnce ==
    /\ pc = "test"
    /\ pc' = "done"
    /\ UNCHANGED <<in_points, in_k, x_range, y_range, selected, _result,
                   barycenters, _point_barycenter, _barycenter_points, changed,
                   emptied>>

\* Lines 161-164: leave the loop and return, or take the keys as the next
\* round's centroids.
Test ==
    /\ pc = "test"
    /\ IF ~changed
       THEN pc' = "done" /\ UNCHANGED barycenters
       ELSE pc' = "assign" /\ barycenters' = DictKeys(_barycenter_points)
    /\ UNCHANGED <<in_points, in_k, x_range, y_range, selected, _result,
                   _point_barycenter, _barycenter_points, changed, emptied>>

---------------------------------------------------------------------------
(* kmeans(in_points, in_k) *)

NoRun == [pc |-> "off", barycenters |-> <<>>, _point_barycenter |-> <<>>,
          _barycenter_points |-> <<>>, changed |-> FALSE]

AtCall ==
    /\ pc = "start"
    /\ x_range = <<0, 0>>
    /\ y_range = <<0, 0>>
    /\ selected = {}
    /\ _result = <<>>
    /\ barycenters = <<>>
    /\ _point_barycenter = <<>>
    /\ _barycenter_points = <<>>
    /\ changed = FALSE
    /\ emptied = FALSE
    /\ other = NoRun

Init ==
    /\ in_points \in SeqsUpTo(Grid, MaxPoints)
    /\ in_k \in 1 .. MaxK
    /\ AtCall

\* The program runs alone: there is no second execution.
Next ==
    \/ ChooseBegin /\ UNCHANGED other
    \/ Draw /\ UNCHANGED other
    \/ Assign /\ UNCHANGED other
    \/ Group /\ UNCHANGED other
    \/ Recompute /\ UNCHANGED other
    \/ Test /\ UNCHANGED other

Spec == Init /\ [][Next]_vars

---------------------------------------------------------------------------
(* Properties of the whole program *)

MinOf(S) == CHOOSE m \in S : \A v \in S : m <= v

MaxOf(S) == CHOOSE m \in S : \A v \in S : m >= v

Xs(points) == {points[i][1] : i \in 1 .. Len(points)}

Ys(points) == {points[i][2] : i \in 1 .. Len(points)}

\* The places <<entry, index>> of point p in the member lists of dict d.
Places(d, p) ==
    UNION {{<<i, j>> : j \in {j \in 1 .. Len(d[i][2]) : d[i][2][j] = p}} :
           i \in 1 .. Len(d)}

Covers(d, points) ==
    /\ \A p \in Range(points) : Cardinality(Places(d, p)) = 1
    /\ \A i \in 1 .. Len(d) : Range(d[i][2]) \subseteq Range(points)

\* C1 (Coverage): after the recompute step of every iteration, and in the
\* mapping kmeans returns, the member lists together hold exactly the input
\* points, and every input point is in exactly one member list.
Coverage ==
    pc \in {"test", "done"} => Covers(_barycenter_points, in_points)

\* C2 (Partition size): as long as no centroid was the nearest centroid of no
\* point, the mapping has exactly K keys after grouping, after recomputation
\* and when kmeans returns.
PartitionSize ==
    (pc \in {"recompute", "test", "done"} /\ ~emptied)
        => Len(_barycenter_points) = in_k

\* C4 (Stability at termination): when kmeans returns, changed is false,
\* every key of the returned mapping is the centroid its members were
\* assigned to in the last iteration and is the rounded mean of its member
\* list, and _find_barycenters applied to the returned mapping answers
\* "unchanged" with the same mapping.
Stability ==
    pc = "done" =>
        /\ ~changed
        /\ \A i \in 1 .. Len(_barycenter_points) :
              LET b == _barycenter_points[i][1]
                  pts == _barycenter_points[i][2]
              IN  /\ b = _find_barycenter(pts)
                  /\ \A p \in Range(pts) : DictGet(_point_barycenter, p) = b
        /\ Cardinality({_point_barycenter[i][2] : i \in 1 .. Len(_point_barycenter)})
              = Len(_barycenter_points)
        /\ _find_barycenters(_barycenter_points) = <<FALSE, _barycenter_points>>

\* A return after at least one iteration that moved a centroid, with two
\* clusters.
StabilityWitness ==
    /\ pc = "done"
    /\ barycenters # _result
    /\ Len(_barycenter_points) = 2

\* C7 (InitializeCentroids): when _choose_barycenters has returned, its
\* result is K pairwise distinct points, each inside the bounding box of the
\* input points.
InitializeCentroids ==
    (pc \notin {"start", "choose"} /\ in_points # <<>>) =>
        /\ Len(_result) = in_k
        /\ IsInjective(_result)
        /\ \A i \in 1 .. Len(_result) :
              /\ MinOf(Xs(in_points)) <= _result[i][1]
              /\ _result[i][1] <= MaxOf(Xs(in_points))
              /\ MinOf(Ys(in_points)) <= _result[i][2]
              /\ _result[i][2] <= MaxOf(Ys(in_points))

---------------------------------------------------------------------------
(* Point.x_min_max and Point.y_min_max on their own *)

InitSigned ==
    /\ in_points \in SeqsUpTo(SignedGrid, MaxPoints)
    /\ in_k \in 1 .. MaxK
    /\ AtCall

NextMinMax == ChooseBegin /\ UNCHANGED other

SpecMinMax == InitSigned /\ [][NextMinMax]_vars

\* C6 (BoundingRange): for a non-empty collection x_min_max returns the
\* smallest and the largest x, and y_min_max the smallest and the largest y.
BoundingRange ==
    (pc = "choose" /\ in_points # <<>>) =>
        /\ x_range = <<MinOf(Xs(in_points)), MaxOf(Xs(in_points))>>
        /\ y_range = <<MinOf(Ys(in_points)), MaxOf(Ys(in_points))>>

---------------------------------------------------------------------------
(* _choose_barycenters on its own, with fair draws *)

NextChoose ==
    \/ ChooseBegin /\ UNCHANGED other
    \/ Draw /\ UNCHANGED other

\* Every tenth of the sampling box is drawn again and again.
FairChoose ==
    /\ Init
    /\ [][NextChoose]_vars
    /\ WF_vars(ChooseBegin /\ UNCHANGED other)
    /\ \A x \in Coords : \A y \in Coords : WF_vars(DrawAt(x, y) /\ UNCHANGED other)

\* The number of tenths-grid points of the box _choose_barycenters samples.
BoxCount ==
    LET xr == x_min_max(in_points)
        yr == y_min_max(in_points)
    IN  (xr[2] - xr[1] + 1) * (yr[2] - yr[1] + 1)

\* C10 (Initialization termination): with fair draws _choose_barycenters
\* returns when K is at most the number of grid points of the sampling box,
\* and never returns when K exceeds it.
ChooseTerminates ==
    /\ (in_k <= BoxCount) ~> (pc = "assign")
    /\ [](in_k > BoxCount => pc # "assign")

\* The call returned with as many centroids as the box has grid points.
ChooseTerminatesWitness ==
    /\ pc = "assign"
    /\ in_k = BoxCount
    /\ in_k > 1

---------------------------------------------------------------------------
(* The main loop from any list of distinct centroids *)

CentroidLists(S, n) == {b \in SeqsUpTo(S, n) : Len(b) >= 1 /\ IsInjective(b)}

AtLoop ==
    /\ pc = "assign"
    /\ in_k = Len(barycenters)
    /\ x_range = x_min_max(in_points)
    /\ y_range = y_min_max(in_points)
    /\ selected = Range(barycenters)
    /\ _result = barycenters
    /\ _point_barycenter = <<>>
    /\ _barycenter_points = <<>>
    /\ changed = FALSE
    /\ emptied = FALSE

InitLoop ==
    /\ in_points \in SeqsUpTo(Grid, MaxPoints)
    /\ barycenters \in CentroidLists(Grid, MaxK)
    /\ AtLoop
    /\ other = NoRun

NextLoop ==
    \/ Assign /\ UNCHANGED other
    \/ Group /\ UNCHANGED other
    \/ Recompute /\ UNCHANGED other
    \/ Test /\ UNCHANGED other

SpecLoop == InitLoop /\ [][NextLoop]_vars

\* The centroid of point p in dict pb is the first of the centroids at the
\* smallest distance from p.
FirstNearest(p, pb, centroids) ==
    /\ DictHas(pb, p)
    /\ \E j \in 1 .. Len(centroids) :
          /\ centroids[j] = DictGet(pb, p)
          /\ \A m \in 1 .. Len(centroids) :
                distance(p, centroids[j]) <= distance(p, centroids[m])
          /\ \A m \in 1 .. j - 1 :
                distance(p, centroids[j]) < distance(p, centroids[m])

---------------------------------------------------------------------------
(* Two executions of the main loop on the same points and centroids *)

main == <<pc, in_points, in_k, x_range, y_range, selected, _result, barycenters,
          _point_barycenter, _barycenter_points, changed, emptied>>

\* Assign, Group, Recompute and Test of the second execution, on its record.
OtherAssign ==
    /\ other.pc = "assign"
    /\ other' = [other EXCEPT
                    !._point_barycenter =
                        _assign_barycenters(in_points, other.barycenters),
                    !.pc = "group"]

OtherGroup ==
    /\ other.pc = "group"
    /\ \E order \in Orders(Range(DictValues(other._point_barycenter))) :
          other' = [other EXCEPT
                       !._barycenter_points =
                           group_by(other._point_barycenter, order),
                       !.pc = "recompute"]

OtherRecompute ==
    /\ other.pc = "recompute"
    /\ LET r == _find_barycenters(other._barycenter_points) IN
          other' = [other EXCEPT !.changed = r[1],
                                 !._barycenter_points = r[2],
                                 !.pc = "test"]

OtherTest ==
    /\ other.pc = "test"
    /\ other' = IF ~other.changed
                THEN [other EXCEPT !.pc = "done"]
                ELSE [other EXCEPT
                         !.barycenters = DictKeys(other._barycenter_points),
                         !.pc = "assign"]

InitTwoRuns ==
    /\ in_points \in SeqsUpTo(Grid, MaxPoints)
    /\ barycenters \in CentroidLists(Grid, MaxK)
    /\ AtLoop
    /\ other = [NoRun EXCEPT !.pc = "assign", !.barycenters = barycenters]

\* The two executions advance together; the one that returned first waits.
NextTwoRuns ==
    \/ Assign /\ OtherAssign
    \/ Group /\ OtherGroup
    \/ Recompute /\ OtherRecompute
    \/ Test /\ OtherTest
    \/ other.pc = "done" /\ Assign /\ UNCHANGED other
    \/ other.pc = "done" /\ Group /\ UNCHANGED other
    \/ other.pc = "done" /\ Recompute /\ UNCHANGED other
    \/ other.pc = "done" /\ Test /\ UNCHANGED other
    \/ pc = "done" /\ OtherAssign /\ UNCHANGED main
    \/ pc = "done" /\ OtherGroup /\ UNCHANGED main
    \/ pc = "done" /\ OtherRecompute /\ UNCHANGED main
    \/ pc = "done" /\ OtherTest /\ UNCHANGED main

SpecTwoRuns == InitTwoRuns /\ [][NextTwoRuns]_vars

\* C5 (Determinism given fixed seed centroids): two executions of the loop
\* from the same point list and the same initial centroid list are at the
\* same step with the same partition at every moment, whatever the orders in
\* which set(_point_barycenter.values()) is enumerated, and so return the
\* same mapping.
Determinism ==
    /\ pc = other.pc
    /\ DictItems(_barycenter_points) = DictItems(other._barycenter_points)

---------------------------------------------------------------------------
(* The main loop on dense point sets, run without end *)

LoopGrid == (0 .. LoopCoord) \X (0 .. LoopCoord)

Before(p, q) == p[1] < q[1] \/ (p[1] = q[1] /\ p[2] < q[2])

\* The points of S from the largest (x, y) down.
RECURSIVE Descending(_)
Descending(S) ==
    IF S = {} THEN <<>>
    ELSE LET m == CHOOSE p \in S : \A q \in S \ {p} : Before(q, p)
         IN  <<m>> \o Descending(S \ {m})

\* The grid with at most LoopMissing points left out, listed downwards.
DenseLists ==
    {Descending(LoopGrid \ D) :
        D \in {D \in SUBSET LoopGrid : Cardinality(D) <= LoopMissing}}

\* Up to LoopK centroids of the grid, listed upwards.
RisingLists ==
    {b \in CentroidLists(LoopGrid, LoopK) :
        \A i \in 1 .. Len(b) - 1 : Before(b[i], b[i + 1])}

InitDense ==
    /\ in_points \in DenseLists
    /\ barycenters \in RisingLists
    /\ AtLoop
    /\ other = NoRun

\* The loop has no exit but its break: it keeps taking steps.
FairLoop == InitDense /\ [][NextLoop]_vars /\ WF_vars(NextLoop)

\* C9 (Convergence): from every non-empty point list and every list of
\* distinct initial centroids the loop reaches an iteration with changed
\* false, and kmeans returns.
Convergence == <>(pc = "done")

---------------------------------------------------------------------------
(* kmeans on the four points (0,0), (0,1), (10,10), (10,11) with K = 2 *)

ScenarioPoints == <<<<0, 0>>, <<0, 10>>, <<100, 100>>, <<100, 110>>>>

\* The draws are taken at whole coordinates from 0 to MaxSeed.
SeedCoords == {10 * i : i \in 0 .. MaxSeed}

InitScenario ==
    /\ in_points = ScenarioPoints
    /\ in_k = 2
    /\ AtCall

DrawSeed == \E x \in SeedCoords, y \in SeedCoords : DrawAt(x, y)

NextScenario ==
    \/ ChooseBegin /\ UNCHANGED other
    \/ DrawSeed /\ UNCHANGED other
    \/ Assign /\ UNCHANGED other
    \/ Group /\ UNCHANGED other
    \/ Recompute /\ UNCHANGED other
    \/ Test /\ UNCHANGED other

SpecScenario == InitScenario /\ [][NextScenario]_vars

NaturalClusters ==
    /\ Len(_barycenter_points) = 2
    /\ DictItems(_barycenter_points) =
          { <<<<0, 5>>, <<<<0, 0>>, <<0, 10>>>>>>,
            <<<<100, 105>>, <<<<100, 100>>, <<100, 110>>>>>> }

OneCluster == _barycenter_points = << <<<<50, 55>>, ScenarioPoints>> >>

\* The first assignment: the drawn centroids that are the first nearest
\* centroid of some point.
SeedsInUse == Range(DictValues(_assign_barycenters(in_points, _result)))

====
